---- MODULE Spec2Model ----
(***************************************************************************)
(* Model of the Harness helper scripts:                                    *)
(*   compareDefaultvsCustomerConfigHarness.py  (flatten_dict,              *)
(*       compare_configs, main)                                            *)
(*   pipelinesByOrg.py / pipelineAppIDs.py     (the page walkers           *)
(*       get_organizations and get_projects_in_org, _make_request,         *)
(*       get_pipelines_in_project, main, extract_app_ids_from_yaml)        *)
(*   getHarnessSupportImagesCustomerConfig.py  (the script body)           *)
(*                                                                         *)
(* Python strings are sequences of one-character strings, so that the      *)
(* f-string path synthesis of flatten_dict and the code-point ordering of  *)
(* sorted() are computed, not assumed.  JSON values are tagged records     *)
(* [t, n, s, items]; a dict keeps its members in insertion order.          *)
(***************************************************************************)
EXTENDS Integers, Sequences, FiniteSets, TLC

VARIABLES
    \* compareDefaultvsCustomerConfigHarness.py
    pc, default_config, customer_config,
    flat_default, flat_customer,
    only_in_default, only_in_customer, different_values, same_values,
    report, summary, raised,
    \* the page walkers of pipelinesByOrg.py / pipelineAppIDs.py
    w_pc, walker, server, page, result_list, requests, responses,
    \* get_pipelines_in_project and _make_request
    p_pc, p_script, approach, p_requests, p_outcomes, p_responses,
    p_result, p_log, p_raised,
    \* main of the four scripts
    m_pc, m_script, env, calls, exit_code, m_error,
    organizations, org_i, projects, proj_i, pipelines, pipe_i,
    org_pipeline_count, pipeline_counts, total_pipelines,
    processed_pipelines, pipelines_with_app_ids, app_id_counts,
    \* extract_app_ids_from_yaml
    e_pc, yaml_content, app_ids, e_raised

compare_vars == <<pc, default_config, customer_config, flat_default,
                  flat_customer, only_in_default, only_in_customer,
                  different_values, same_values, report, summary, raised>>
walk_vars == <<w_pc, walker, server, page, result_list, requests, responses>>
pipe_vars == <<p_pc, p_script, approach, p_requests, p_outcomes, p_responses,
               p_result, p_log, p_raised>>
main_vars == <<m_pc, m_script, env, calls, exit_code, m_error,
               organizations, org_i, projects, proj_i, pipelines, pipe_i,
               org_pipeline_count, pipeline_counts, total_pipelines,
               processed_pipelines, pipelines_with_app_ids, app_id_counts>>
extract_vars == <<e_pc, yaml_content, app_ids, e_raised>>
vars == <<compare_vars, walk_vars, pipe_vars, main_vars, extract_vars>>

----------------------------------------------------------------------------
(* Bounds *)

\* largest number of members of a top-level 'data' mapping
MaxItems == 2
\* organizations the server lists
MaxOrgs == 2
\* lines of a pipeline YAML text
MaxLines == 2
\* pages an arbitrary (never-last) server is followed for
MaxPages == 3
\* largest number of items a well-behaved server holds
MaxTotal == 250

----------------------------------------------------------------------------
(* Python values *)

Null == [t |-> "null", n |-> 0, s |-> <<>>, items |-> <<>>]
Bool(b) == [t |-> "bool", n |-> IF b THEN 1 ELSE 0, s |-> <<>>, items |-> <<>>]
IntV(i) == [t |-> "int", n |-> i, s |-> <<>>, items |-> <<>>]
Str(cs) == [t |-> "str", n |-> 0, s |-> cs, items |-> <<>>]
\* members: a sequence of [k |-> key, v |-> value], keys distinct
Dict(members) == [t |-> "dict", n |-> 0, s |-> <<>>, items |-> members]
\* elements: a sequence of values
List(elements) ==
    [t |-> "list", n |-> 0, s |-> <<>>,
     items |-> [i \in 1..Len(elements) |-> [k |-> <<>>, v |-> elements[i]]]]

KV(key, val) == [k |-> key, v |-> val]

IsScalar(x) == x.t \in {"null", "bool", "int", "str"}

\* bool(x): None, False, 0, '' and empty containers are falsy
PyTruthy(x) ==
    CASE x.t = "null" -> FALSE
      [] x.t \in {"bool", "int"} -> x.n # 0
      [] x.t = "str" -> Len(x.s) > 0
      [] OTHER -> Len(x.items) > 0

HasKey(d, key) == \E i \in 1..Len(d.items) : d.items[i].k = key

KeySet(d) == {d.items[i].k : i \in 1..Len(d.items)}

\* d.get(key, dflt)
Get(d, key, dflt) ==
    IF HasKey(d, key)
    THEN d.items[CHOOSE i \in 1..Len(d.items) : d.items[i].k = key].v
    ELSE dflt

\* a == b on Python values: bool is an int subtype (True == 1, False == 0),
\* a str equals only a str, None only None, containers compare by content
RECURSIVE PyEq(_, _)
PyEq(a, b) ==
    IF a.t \in {"bool", "int"} /\ b.t \in {"bool", "int"} THEN a.n = b.n
    ELSE IF a.t # b.t THEN FALSE
    ELSE CASE a.t = "null" -> TRUE
           [] a.t = "str" -> a.s = b.s
           [] a.t = "list" ->
                /\ Len(a.items) = Len(b.items)
                /\ \A i \in 1..Len(a.items) : PyEq(a.items[i].v, b.items[i].v)
           [] OTHER ->
                /\ KeySet(a) = KeySet(b)
                /\ \A key \in KeySet(a) : PyEq(Get(a, key, Null), Get(b, key, Null))

\* characters in ascending code-point order
Chars == <<".", "0", "1", "2", "3", "4", "5", "6", "7", "8", "9",
           "<", ">", "E", "I", "N", "O", "S", "T", "[", "]", "_",
           "a", "b", "c", "d", "e", "g", "i", "k", "l", "m", "n", "o", "p",
           "s", "t", "u">>

Ord(c) == CHOOSE i \in 1..Len(Chars) : Chars[i] = c

\* str < str: lexicographic by code point
RECURSIVE StrLess(_, _)
StrLess(x, y) ==
    IF x = <<>> THEN y # <<>>
    ELSE IF y = <<>> THEN FALSE
    ELSE IF Head(x) = Head(y) THEN StrLess(Tail(x), Tail(y))
    ELSE Ord(Head(x)) < Ord(Head(y))

\* sorted(S) for a set of strings
RECURSIVE sorted(_)
sorted(S) ==
    IF S = {} THEN <<>>
    ELSE LET m == CHOOSE x \in S : \A y \in S : x = y \/ StrLess(x, y)
         IN <<m>> \o sorted(S \ {m})

\* str(i) for i >= 0, as used by the f-string "[{i}]"
RECURSIVE format_index(_)
format_index(i) ==
    IF i < 10 THEN <<Chars[i + 2]>>
    ELSE format_index(i \div 10) \o <<Chars[(i % 10) + 2]>>

\* dict(items): a later pair overwrites the value of an earlier equal key
RECURSIVE dict_items(_, _, _)
dict_items(pairs, i, acc) ==
    IF i > Len(pairs) THEN acc
    ELSE LET p == pairs[i]
             hit == {j \in 1..Len(acc) : acc[j].k = p.k}
         IN dict_items(pairs, i + 1,
                IF hit = {} THEN Append(acc, p)
                ELSE [acc EXCEPT ![CHOOSE j \in hit : TRUE].v = p.v])

dict(pairs) == Dict(dict_items(pairs, 1, <<>>))

----------------------------------------------------------------------------
(* flatten_dict *)

sep == <<".">>

\* new_key = f"{parent_key}{sep}{k}" if parent_key else k
new_key(parent_key, k) ==
    IF parent_key # <<>> THEN parent_key \o sep \o k ELSE k

\* indexed_key counting elements from 1 (enumerate(v, 1))
indexed_key_one_based(nk, i) == nk \o <<"[">> \o format_index(i + 1) \o <<"]">>

\* f"{new_key}[{i}]"
indexed_key(nk, i) == nk \o <<"[">> \o format_index(i) \o <<"]">>

RECURSIVE flatten_dict(_, _), flatten_members(_, _, _), flatten_elements(_, _, _)

\* the inner loop over enumerate(v), from element j (1-based) on
flatten_elements(v, nk, j) ==
    IF j > Len(v.items) THEN <<>>
    ELSE LET item == v.items[j].v
             here == IF item.t = "dict"
                     THEN flatten_dict(item, indexed_key(nk, j - 1)).items
                     ELSE <<KV(indexed_key(nk, j - 1), item)>>
         IN here \o flatten_elements(v, nk, j + 1)

\* the outer loop over d.items(), from member j on
flatten_members(d, parent_key, j) ==
    IF j > Len(d.items) THEN <<>>
    ELSE LET k == d.items[j].k
             v == d.items[j].v
             nk == new_key(parent_key, k)
             here == IF v.t = "dict" THEN flatten_dict(v, nk).items
                     ELSE IF v.t = "list" THEN flatten_elements(v, nk, 1)
                     ELSE <<KV(nk, v)>>
         IN here \o flatten_members(d, parent_key, j + 1)

\* defined for a dict d; d.items() raises AttributeError on anything else
flatten_dict(d, parent_key) == dict(flatten_members(d, parent_key, 1))

flatten_raises(d) == d.t # "dict"

----------------------------------------------------------------------------
(* compare_configs *)

NOT_SET == Str(<<"<", "N", "O", "T", "_", "S", "E", "T", ">">>)

K_data == <<"d", "a", "t", "a">>

\* customer_data = customer_config.get('data', {})
data_of(config) == Get(config, K_data, Dict(<<>>))

\* uses_default with the test reduced to `customer_data is None`
uses_default_none_only(customer_data) == customer_data.t = "null"

\* the test `not customer_data or customer_data is None`
uses_default(customer_data) ==
    (~PyTruthy(customer_data)) \/ customer_data.t = "null"

NoLists == [only_in_default |-> <<>>, only_in_customer |-> <<>>,
            different_values |-> <<>>, same_values |-> <<>>]

\* classify_key with the first test made on the wrong side
\* (`if key not in flat_default`)
classify_key_swapped(key, fd, fc, acc) ==
    LET default_val == Get(fd, key, NOT_SET)
        customer_val == Get(fc, key, NOT_SET)
    IN IF ~HasKey(fd, key)
       THEN [acc EXCEPT !.only_in_default =
                Append(@, [key |-> key, val |-> default_val])]
       ELSE IF ~HasKey(fc, key)
       THEN [acc EXCEPT !.only_in_customer =
                Append(@, [key |-> key, val |-> customer_val])]
       ELSE IF ~PyEq(default_val, customer_val)
       THEN [acc EXCEPT !.different_values =
                Append(@, [key |-> key, default_val |-> default_val,
                           customer_val |-> customer_val])]
       ELSE [acc EXCEPT !.same_values =
                Append(@, [key |-> key, val |-> default_val])]

\* classify_key without the `elif key not in flat_default` branch
classify_key_no_customer_only(key, fd, fc, acc) ==
    LET default_val == Get(fd, key, NOT_SET)
        customer_val == Get(fc, key, NOT_SET)
    IN IF ~HasKey(fc, key)
       THEN [acc EXCEPT !.only_in_default =
                Append(@, [key |-> key, val |-> default_val])]
       ELSE IF ~PyEq(default_val, customer_val)
       THEN [acc EXCEPT !.different_values =
                Append(@, [key |-> key, default_val |-> default_val,
                           customer_val |-> customer_val])]
       ELSE [acc EXCEPT !.same_values =
                Append(@, [key |-> key, val |-> default_val])]

\* one pass of `for key in sorted(all_keys)`: the if / elif chain
classify_key(key, fd, fc, acc) ==
    LET default_val == Get(fd, key, NOT_SET)
        customer_val == Get(fc, key, NOT_SET)
    IN IF ~HasKey(fc, key)
       THEN [acc EXCEPT !.only_in_default =
                Append(@, [key |-> key, val |-> default_val])]
       ELSE IF ~HasKey(fd, key)
       THEN [acc EXCEPT !.only_in_customer =
                Append(@, [key |-> key, val |-> customer_val])]
       ELSE IF ~PyEq(default_val, customer_val)
       THEN [acc EXCEPT !.different_values =
                Append(@, [key |-> key, default_val |-> default_val,
                           customer_val |-> customer_val])]
       ELSE [acc EXCEPT !.same_values =
                Append(@, [key |-> key, val |-> default_val])]

RECURSIVE classify_loop(_, _, _, _, _)
classify_loop(keys, i, fd, fc, acc) ==
    IF i > Len(keys) THEN acc
    ELSE classify_loop(keys, i + 1, fd, fc, classify_key(keys[i], fd, fc, acc))

\* the four lists compare_configs builds from two flattened configs
classify(fd, fc) ==
    LET all_keys == KeySet(fd) \cup KeySet(fc)
    IN classify_loop(sorted(all_keys), 1, fd, fc, NoLists)

----------------------------------------------------------------------------
(* What the two config endpoints can answer *)

K_a == <<"a">>
K_b == <<"b">>
K_a_dot_b == <<"a", ".", "b">>
K_a_1 == <<"a", "[", "1", "]">>
K_status == <<"s", "t", "a", "t", "u", "s">>

\* members a 'data' mapping is built from
TopMembers ==
    { KV(K_a, IntV(1)), KV(K_a, Bool(TRUE)), KV(K_a, Str(<<"1">>)),
      KV(K_a, Dict(<<KV(K_b, IntV(1))>>)),
      KV(K_a, Dict(<<KV(K_b, IntV(0))>>)),
      KV(K_a, List(<<Dict(<<KV(K_b, IntV(1))>>), IntV(2)>>)),
      KV(K_a, List(<<List(<<IntV(1)>>)>>)),
      KV(K_b, IntV(0)), KV(K_b, Bool(FALSE)),
      KV(K_a_dot_b, IntV(1)),
      KV(K_a_1, Null) }

DistinctKeys(members) ==
    \A i, j \in 1..Len(members) : members[i].k = members[j].k => i = j

\* the mappings of at most MaxItems members, in every member order
DataDicts ==
    { Dict(m) : m \in UNION { {f \in [1..n -> TopMembers] : DistinctKeys(f)}
                              : n \in 0..MaxItems } }

\* 'data' may also be null, a falsy scalar or a sequence
DataValues == DataDicts \cup {Null, IntV(0), List(<<IntV(1)>>)}

\* response.json(): a body with 'data', or one without
Bodies ==
    { Dict(<<KV(K_data, d)>>) : d \in DataValues }
        \cup { Dict(<<KV(K_status, Str(<<"o", "k">>))>>) }

\* get_harness_config: the body, or {} after a RequestException
get_harness_config == Bodies \cup { Dict(<<>>) }

----------------------------------------------------------------------------
(* main of compareDefaultvsCustomerConfigHarness.py *)

\* no script started
IdleMain ==
    /\ m_pc = "idle"
    /\ m_script = "none"
    /\ env = [token |-> FALSE, acct |-> FALSE]
    /\ calls = [config |-> 0, org |-> 0, project |-> 0, pipeline |-> 0, yaml |-> 0]
    /\ exit_code = -1
    /\ m_error = "none"
    /\ organizations = <<>>
    /\ org_i = 0
    /\ projects = <<>>
    /\ proj_i = 0
    /\ pipelines = <<>>
    /\ pipe_i = 0
    /\ org_pipeline_count = 0
    /\ pipeline_counts = <<>>
    /\ total_pipelines = 0
    /\ processed_pipelines = 0
    /\ pipelines_with_app_ids = 0
    /\ app_id_counts = <<>>

\* extract_app_ids_from_yaml not called
IdleExtract ==
    /\ e_pc = "idle"
    /\ yaml_content = <<>>
    /\ app_ids = {}
    /\ e_raised = "none"

\* get_pipelines_in_project not called
IdlePipes ==
    /\ p_pc = "idle"
    /\ p_script = "none"
    /\ approach = 0
    /\ p_requests = <<>>
    /\ p_outcomes = <<>>
    /\ p_responses = <<>>
    /\ p_result = <<>>
    /\ p_log = <<>>
    /\ p_raised = "none"

IdleWalk ==
    /\ w_pc = "idle"
    /\ walker = "none"
    /\ server = [kind |-> "none", total |-> 0, trailing |-> FALSE]
    /\ page = 0
    /\ result_list = <<>>
    /\ requests = <<>>
    /\ responses = <<>>

InitCompare ==
    /\ pc = "fetch_default"
    /\ default_config = Dict(<<>>)
    /\ customer_config = Dict(<<>>)
    /\ flat_default = Dict(<<>>)
    /\ flat_customer = Dict(<<>>)
    /\ only_in_default = <<>>
    /\ only_in_customer = <<>>
    /\ different_values = <<>>
    /\ same_values = <<>>
    /\ report = "none"
    /\ summary = <<>>
    /\ raised = "none"
    /\ IdleWalk
    /\ IdlePipes
    /\ IdleMain
    /\ IdleExtract

\* default_config = get_harness_config('default')
FetchDefault ==
    /\ pc = "fetch_default"
    /\ \E body \in get_harness_config : default_config' = body
    /\ pc' = "fetch_customer"
    /\ UNCHANGED <<customer_config, flat_default, flat_customer,
                   only_in_default, only_in_customer, different_values,
                   same_values, report, summary, raised>>
    /\ UNCHANGED <<walk_vars, pipe_vars, main_vars, extract_vars>>

\* customer_config = get_harness_config('customer')
FetchCustomer ==
    /\ pc = "fetch_customer"
    /\ \E body \in get_harness_config : customer_config' = body
    /\ pc' = "compare"
    /\ UNCHANGED <<default_config, flat_default, flat_customer,
                   only_in_default, only_in_customer, different_values,
                   same_values, report, summary, raised>>
    /\ UNCHANGED <<walk_vars, pipe_vars, main_vars, extract_vars>>

\* `if not default_config or not customer_config: ... return`
MainFetchFailed ==
    /\ pc = "compare"
    /\ (~PyTruthy(default_config)) \/ (~PyTruthy(customer_config))
    /\ report' = "fetch_failed"
    /\ pc' = "done"
    /\ UNCHANGED <<default_config, customer_config, flat_default,
                   flat_customer, only_in_default, only_in_customer,
                   different_values, same_values, summary, raised>>
    /\ UNCHANGED <<walk_vars, pipe_vars, main_vars, extract_vars>>

\* compare_configs, the early return of the "using DEFAULT" branch
CompareUsingDefault ==
    /\ pc = "compare"
    /\ PyTruthy(default_config) /\ PyTruthy(customer_config)
    /\ uses_default(data_of(customer_config))
    /\ report' = "using_default"
    /\ pc' = "done"
    /\ UNCHANGED <<default_config, customer_config, flat_default,
                   flat_customer, only_in_default, only_in_customer,
                   different_values, same_values, summary, raised>>
    /\ UNCHANGED <<walk_vars, pipe_vars, main_vars, extract_vars>>

\* compare_configs, flatten_dict raising on a 'data' that is no mapping
CompareRaises ==
    /\ pc = "compare"
    /\ PyTruthy(default_config) /\ PyTruthy(customer_config)
    /\ ~uses_default(data_of(customer_config))
    /\ \/ flatten_raises(data_of(default_config))
       \/ flatten_raises(data_of(customer_config))
    /\ flat_default' = IF flatten_raises(data_of(default_config))
                       THEN flat_default
                       ELSE flatten_dict(data_of(default_config), <<>>)
    /\ raised' = "AttributeError"
    /\ report' = "comparing"
    /\ pc' = "raised"
    /\ UNCHANGED <<default_config, customer_config, flat_customer,
                   only_in_default, only_in_customer, different_values,
                   same_values, summary>>
    /\ UNCHANGED <<walk_vars, pipe_vars, main_vars, extract_vars>>

\* compare_configs, flattening both sides and classifying every key
CompareClassify ==
    /\ pc = "compare"
    /\ PyTruthy(default_config) /\ PyTruthy(customer_config)
    /\ ~uses_default(data_of(customer_config))
    /\ ~flatten_raises(data_of(default_config))
    /\ ~flatten_raises(data_of(customer_config))
    /\ LET fd == flatten_dict(data_of(default_config), <<>>)
           fc == flatten_dict(data_of(customer_config), <<>>)
           lists == classify(fd, fc)
       IN /\ flat_default' = fd
          /\ flat_customer' = fc
          /\ only_in_default' = lists.only_in_default
          /\ only_in_customer' = lists.only_in_customer
          /\ different_values' = lists.different_values
          /\ same_values' = lists.same_values
          /\ summary' = <<Len(lists.different_values),
                          Len(lists.only_in_customer),
                          Len(lists.only_in_default),
                          Len(lists.same_values)>>
    /\ report' = "compared"
    /\ pc' = "done"
    /\ UNCHANGED <<default_config, customer_config, raised>>
    /\ UNCHANGED <<walk_vars, pipe_vars, main_vars, extract_vars>>

NextCompare ==
    \/ FetchDefault
    \/ FetchCustomer
    \/ MainFetchFailed
    \/ CompareUsingDefault
    \/ CompareRaises
    \/ CompareClassify

SpecCompare == InitCompare /\ [][NextCompare]_vars

----------------------------------------------------------------------------
(* The page walkers get_organizations and get_projects_in_org *)

\* params['pageSize']
pageSize == 100

K_content == <<"c", "o", "n", "t", "e", "n", "t">>
K_last == <<"l", "a", "s", "t">>

\* `not response or not response.get('data')`
no_data(response) ==
    (~PyTruthy(response)) \/ ~PyTruthy(Get(response, K_data, Null))

\* `not page_data.get('content')`
no_content(page_data) == ~PyTruthy(Get(page_data, K_content, Null))

\* is_last with the default of the flag turned to False
is_last_default_false(page_data) == PyTruthy(Get(page_data, K_last, Bool(FALSE)))

\* is_last with the test inverted (`if not page_data.get('last', True)`)
is_last_inverted(page_data) == ~PyTruthy(Get(page_data, K_last, Bool(TRUE)))

\* `page_data.get('last', True)`
is_last(page_data) == PyTruthy(Get(page_data, K_last, Bool(TRUE)))

\* organizations.extend(page_data['content'])
extend(list, content) == list \o [i \in 1..Len(content.items) |-> content.items[i].v]

PageBody(elements, last_members) ==
    Dict(<<KV(K_data, Dict(<<KV(K_content, List(elements))>> \o last_members))>>)

\* answers of a server that promises nothing; Null is a failed request
ArbitraryResponses ==
    { Null, Dict(<<>>), Dict(<<KV(K_data, Null)>>),
      Dict(<<KV(K_data, Dict(<<>>))>>),
      Dict(<<KV(K_data, Dict(<<KV(K_last, Bool(FALSE))>>))>>),
      Dict(<<KV(K_data, Dict(<<KV(K_last, Bool(TRUE))>>))>>),
      PageBody(<<>>, <<KV(K_last, Bool(FALSE))>>) }
    \cup { PageBody(c, l) :
             c \in { <<IntV(1)>>, <<IntV(2), IntV(1)>> },
             l \in { <<>>, <<KV(K_last, Bool(TRUE))>>, <<KV(K_last, Bool(FALSE))>> } }

\* number of pages a well-behaved server has: full pages, then the rest;
\* it may end in an empty page when the total is a multiple of the size
NumPages(total, trailing) ==
    IF total = 0 THEN 1
    ELSE IF total % pageSize = 0
    THEN (total \div pageSize) + (IF trailing THEN 1 ELSE 0)
    ELSE (total \div pageSize) + 1

\* page p of a well-behaved server: items p*pageSize+1 .. and last on the
\* final page; nothing, and last, beyond it
WellBehavedPage(total, trailing, p) ==
    LET first == p * pageSize + 1
        upto == IF (p + 1) * pageSize < total THEN (p + 1) * pageSize ELSE total
        n == IF upto >= first THEN upto - first + 1 ELSE 0
    IN PageBody([i \in 1..n |-> IntV(first + i - 1)],
                <<KV(K_last, Bool(p >= NumPages(total, trailing) - 1))>>)

\* self._make_request('GET', endpoint, params) with params['pageIndex'] = p
PageResponses(srv, p) ==
    IF srv.kind = "well_behaved"
    THEN { WellBehavedPage(srv.total, srv.trailing, p) }
    ELSE ArbitraryResponses

Servers ==
    { [kind |-> "arbitrary", total |-> 0, trailing |-> FALSE] }
    \cup { [kind |-> "well_behaved", total |-> n, trailing |-> b] :
             n \in 0..MaxTotal, b \in BOOLEAN }

IdleCompare ==
    /\ pc = "idle"
    /\ default_config = Dict(<<>>)
    /\ customer_config = Dict(<<>>)
    /\ flat_default = Dict(<<>>)
    /\ flat_customer = Dict(<<>>)
    /\ only_in_default = <<>>
    /\ only_in_customer = <<>>
    /\ different_values = <<>>
    /\ same_values = <<>>
    /\ report = "none"
    /\ summary = <<>>
    /\ raised = "none"

\* organizations = [] ; page = 0
InitWalk ==
    /\ w_pc = "loop"
    /\ walker \in {"get_organizations", "get_projects_in_org"}
    /\ server \in Servers
    /\ page = 0
    /\ result_list = <<>>
    /\ requests = <<>>
    /\ responses = <<>>
    /\ IdleCompare
    /\ IdlePipes
    /\ IdleMain
    /\ IdleExtract

\* one iteration: the request for params['pageIndex'] = page is made
Requested(response) ==
    /\ w_pc = "loop"
    /\ response \in PageResponses(server, page)
    /\ requests' = Append(requests, page)
    /\ responses' = Append(responses, response)

\* `if not response or not response.get('data'): break`, then return
PageNoData ==
    /\ \E response \in PageResponses(server, page) :
         /\ Requested(response)
         /\ no_data(response)
    /\ w_pc' = "returned"
    /\ UNCHANGED <<walker, server, page, result_list>>
    /\ UNCHANGED <<compare_vars, pipe_vars, main_vars, extract_vars>>

\* `if not page_data.get('content'): break`, then return
PageNoContent ==
    /\ \E response \in PageResponses(server, page) :
         /\ Requested(response)
         /\ ~no_data(response)
         /\ no_content(Get(response, K_data, Null))
    /\ w_pc' = "returned"
    /\ UNCHANGED <<walker, server, page, result_list>>
    /\ UNCHANGED <<compare_vars, pipe_vars, main_vars, extract_vars>>

\* extend, `if page_data.get('last', True): break`, then return
PageLast ==
    /\ \E response \in PageResponses(server, page) :
         LET page_data == Get(response, K_data, Null)
         IN /\ Requested(response)
            /\ ~no_data(response)
            /\ ~no_content(page_data)
            /\ is_last(page_data)
            /\ result_list' = extend(result_list, Get(page_data, K_content, Null))
    /\ w_pc' = "returned"
    /\ UNCHANGED <<walker, server, page>>
    /\ UNCHANGED <<compare_vars, pipe_vars, main_vars, extract_vars>>

\* extend, `page += 1` and round the loop again
PageMore ==
    /\ server.kind = "arbitrary" => page < MaxPages
    /\ \E response \in PageResponses(server, page) :
         LET page_data == Get(response, K_data, Null)
         IN /\ Requested(response)
            /\ ~no_data(response)
            /\ ~no_content(page_data)
            /\ ~is_last(page_data)
            /\ result_list' = extend(result_list, Get(page_data, K_content, Null))
    /\ page' = page + 1
    /\ UNCHANGED <<w_pc, walker, server>>
    /\ UNCHANGED <<compare_vars, pipe_vars, main_vars, extract_vars>>

NextWalk ==
    \/ PageNoData
    \/ PageNoContent
    \/ PageLast
    \/ PageMore

SpecWalk == InitWalk /\ [][NextWalk]_vars

\* the loop is straight-line code: it keeps running while it can
SpecWalkFair == SpecWalk /\ WF_vars(NextWalk)

----------------------------------------------------------------------------
(* _make_request and get_pipelines_in_project *)

K_pipelines == <<"p", "i", "p", "e", "l", "i", "n", "e", "s">>
K_totalElements == <<"t", "o", "t", "a", "l", "E", "l", "e", "m", "e", "n", "t", "s">>

Scripts == {"pipelinesByOrg", "pipelineAppIDs"}

\* the list `approaches` has three entries in pipelinesByOrg.py, two in
\* pipelineAppIDs.py
NumApproaches(scr) == IF scr = "pipelinesByOrg" THEN 3 ELSE 2

\* JSON bodies a pipeline-list endpoint may answer with
PipelineBodies ==
    { Dict(<<>>),
      List(<<IntV(1)>>),
      Dict(<<KV(K_data, List(<<IntV(1), IntV(2)>>))>>),
      Dict(<<KV(K_data, List(<<>>))>>),
      Dict(<<KV(K_data, Dict(<<KV(K_content, List(<<IntV(1)>>))>>))>>),
      Dict(<<KV(K_data, Dict(<<KV(K_content, List(<<>>))>>))>>),
      Dict(<<KV(K_data, Dict(<<KV(K_content, List(<<>>)),
                               KV(K_totalElements, IntV(0))>>))>>),
      Dict(<<KV(K_data, Dict(<<KV(K_pipelines, List(<<IntV(2)>>))>>))>>),
      Dict(<<KV(K_data, Null)>>),
      Dict(<<KV(K_data, IntV(5))>>),
      Dict(<<KV(K_content, List(<<IntV(2), IntV(1)>>))>>),
      Dict(<<KV(K_status, Str(<<"o", "k">>))>>) }

\* what self.session.request / raise_for_status can do: a 2xx answer with a
\* JSON body, an HTTPError carrying the response, or a RequestException
\* without a response (ConnectionError, Timeout)
Exchange(kind, status, body) == [kind |-> kind, status |-> status, body |-> body]

FailedExchanges ==
    { Exchange("http_error", 404, Null), Exchange("http_error", 500, Null),
      Exchange("transport", 0, Null) }

Exchanges == { Exchange("ok", 200, b) : b \in PipelineBodies } \cup FailedExchanges

\* the except branch of _make_request: the lines it prints
diagnostics(scr, x) ==
    IF scr = "pipelinesByOrg"
    THEN <<"API request failed">>
           \o (IF x.kind = "http_error" THEN <<"Response status">> ELSE <<>>)
           \o (IF x.kind = "http_error" /\ x.status # 404
               THEN <<"Response text">> ELSE <<>>)
    ELSE IF x.kind = "http_error" /\ x.status # 404
         THEN <<"API request failed", "Response status">>
         ELSE <<>>

\* _make_request: the parsed body, or None after a RequestException
make_request(scr, x) ==
    IF x.kind = "ok" THEN [ret |-> x.body, log |-> <<>>]
    ELSE [ret |-> Null, log |-> diagnostics(scr, x)]

Verdict(kind, value) == [kind |-> kind, value |-> value]

\* inspect returning on every response that is not absent
inspect_stop_on_any(scr, response) ==
    IF response.t = "null" THEN Verdict("next", List(<<>>))
    ELSE Verdict("return", List(<<>>))

\* the body of the try block after the request: "return" with the list,
\* "next" when the loop goes on, "except" when an exception is raised
inspect(scr, response) ==
    IF ~PyTruthy(response) THEN Verdict("next", List(<<>>))
    ELSE IF response.t # "dict" THEN Verdict("except", List(<<>>))
    ELSE LET data == Get(response, K_data, response)
         IN IF data.t = "list" THEN Verdict("return", data)
            ELSE IF data.t # "dict" THEN Verdict("except", List(<<>>))
            ELSE IF PyTruthy(Get(data, K_content, Null))
                 THEN Verdict("return", Get(data, K_content, Null))
            ELSE IF PyTruthy(Get(data, K_pipelines, Null))
                 THEN Verdict("return", Get(data, K_pipelines, Null))
            ELSE IF scr = "pipelinesByOrg" /\ HasKey(data, K_totalElements)
                 THEN Verdict("return", Get(data, K_content, List(<<>>)))
            ELSE Verdict("next", List(<<>>))

\* except that lets an AttributeError through (`except KeyError`)
caught_key_error_only(exc) == exc = "KeyError"

\* `except Exception`
caught(exc) == TRUE

InitPipes ==
    /\ p_pc = "loop"
    /\ p_script \in Scripts
    /\ approach = 1
    /\ p_requests = <<>>
    /\ p_outcomes = <<>>
    /\ p_responses = <<>>
    /\ p_result = <<>>
    /\ p_log = <<>>
    /\ p_raised = "none"
    /\ IdleCompare
    /\ IdleWalk
    /\ IdleMain
    /\ IdleExtract

\* one iteration of `for approach in approaches`: the request is made
Tried(x) ==
    /\ p_pc = "loop"
    /\ x \in Exchanges
    /\ p_requests' = Append(p_requests, approach)
    /\ p_outcomes' = Append(p_outcomes, x)
    /\ p_responses' = Append(p_responses, make_request(p_script, x).ret)
    /\ p_log' = Append(p_log, make_request(p_script, x).log)

\* after an iteration that returned nothing: the next approach, or
\* `return []` behind the loop
GoOn ==
    IF approach < NumApproaches(p_script)
    THEN /\ approach' = approach + 1
         /\ UNCHANGED <<p_pc, p_result>>
    ELSE /\ p_pc' = "returned"
         /\ p_result' = <<>>
         /\ UNCHANGED approach

\* a response a pipeline list is taken from: return it
ApproachReturns ==
    /\ \E x \in Exchanges :
         LET v == inspect(p_script, make_request(p_script, x).ret)
         IN /\ Tried(x)
            /\ v.kind = "return"
            /\ p_result' = [i \in 1..Len(v.value.items) |-> v.value.items[i].v]
    /\ p_pc' = "returned"
    /\ UNCHANGED <<p_script, approach, p_raised>>
    /\ UNCHANGED <<compare_vars, walk_vars, main_vars, extract_vars>>

\* an absent, falsy or unrecognized response: the loop goes on
ApproachFallsThrough ==
    /\ \E x \in Exchanges :
         /\ Tried(x)
         /\ inspect(p_script, make_request(p_script, x).ret).kind = "next"
    /\ GoOn
    /\ UNCHANGED <<p_script, p_raised>>
    /\ UNCHANGED <<compare_vars, walk_vars, main_vars, extract_vars>>

\* an AttributeError while the response is inspected: except, continue
ApproachExcepts ==
    /\ \E x \in Exchanges :
         /\ Tried(x)
         /\ inspect(p_script, make_request(p_script, x).ret).kind = "except"
    /\ IF caught("AttributeError")
       THEN GoOn /\ UNCHANGED p_raised
       ELSE /\ p_pc' = "raised"
            /\ p_raised' = "AttributeError"
            /\ UNCHANGED <<approach, p_result>>
    /\ UNCHANGED p_script
    /\ UNCHANGED <<compare_vars, walk_vars, main_vars, extract_vars>>

NextPipes ==
    \/ ApproachReturns
    \/ ApproachFallsThrough
    \/ ApproachExcepts

SpecPipes == InitPipes /\ [][NextPipes]_vars

----------------------------------------------------------------------------
(* main of the four scripts: configuration, the organization walk, counts *)

K_identifier == <<"i", "d", "e", "n", "t", "i", "f", "i", "e", "r">>
K_name == <<"n", "a", "m", "e">>
K_organization == <<"o", "r", "g", "a", "n", "i", "z", "a", "t", "i", "o", "n">>
K_project == <<"p", "r", "o", "j", "e", "c", "t">>
K_pipeline == <<"p", "i", "p", "e", "l", "i", "n", "e">>
unknown == Str(<<"u", "n", "k", "n", "o", "w", "n">>)

AllScripts ==
    Scripts \cup {"compareDefaultvsCustomerConfigHarness",
                  "getHarnessSupportImagesCustomerConfig"}

\* os.getenv of the two variables: set or not
Environments == [token : BOOLEAN, acct : BOOLEAN]

\* org.get('organization', org).get('identifier', 'unknown'), and the same
\* for a project under 'project'
identifier(item, wrapper) == Get(Get(item, wrapper, item), K_identifier, unknown)

\* pipeline_data.get('identifier', pipeline_data.get('name', 'unknown'))
pipeline_identifier(item) ==
    LET pipeline_data == Get(item, K_pipeline, item)
    IN Get(pipeline_data, K_identifier, Get(pipeline_data, K_name, unknown))

Identified(cs) == Dict(<<KV(K_identifier, Str(cs))>>)

\* what the server lists: entities in the flat and in the nested form, with
\* and without an identifier
Named(cs) == Dict(<<KV(K_name, Str(cs))>>)

OrgObjects ==
    { Dict(<<KV(K_organization, Identified(<<"o", "1">>))>>),
      Named(<<"n">>) }

OrgLists == UNION { [1..n -> OrgObjects] : n \in 0..MaxOrgs }

ProjectLists ==
    { <<>>,
      <<Named(<<"n">>),
        Dict(<<KV(K_project, Identified(<<"p", "2">>))>>)>>,
      <<Identified(<<"p", "1">>),
        Identified(<<"p", "2">>)>> }

PipelineLists ==
    { <<>>,
      <<Dict(<<>>), Dict(<<KV(K_pipeline, Named(<<"l", "2">>))>>)>>,
      <<Identified(<<"l", "1">>),
        Identified(<<"l", "2">>)>> }

\* the appIDs extract_app_ids_from_yaml can find in one pipeline
AppIds == {<<"x">>, <<"y">>}

\* the validation at the head of main: pipelinesByOrg.py tests the token,
\* and the account id only against the placeholder literal;
\* pipelineAppIDs.py tests both
config_missing(scr, e) ==
    IF scr = "pipelinesByOrg" THEN ~e.token ELSE ~e.token \/ ~e.acct

\* the test never true
no_organizations_never(orgs) == FALSE

\* `if not organizations`
no_organizations(orgs) == Len(orgs) = 0

\* pipeline_counts[org_id] = count
set_item(d, key, val) ==
    IF \E i \in 1..Len(d) : d[i].k = key
    THEN [i \in 1..Len(d) |-> IF d[i].k = key THEN KV(key, val) ELSE d[i]]
    ELSE Append(d, KV(key, val))

\* one per project
count_found_once(total, found) == total + 1

\* total_pipelines += len(pipelines)
count_found(total, found) == total + Len(found)

\* for app_id in app_ids: app_id_counts[app_id] += 1
count_app_ids(counts, ids) ==
    [a \in AppIds |-> IF a \in ids THEN counts[a] + 1 ELSE counts[a]]

NoCalls == [config |-> 0, org |-> 0, project |-> 0, pipeline |-> 0, yaml |-> 0]

InitMain ==
    /\ m_pc = "start"
    /\ m_script \in AllScripts
    /\ env \in Environments
    /\ calls = NoCalls
    /\ exit_code = -1
    /\ m_error = "none"
    /\ organizations = <<>>
    /\ org_i = 0
    /\ projects = <<>>
    /\ proj_i = 0
    /\ pipelines = <<>>
    /\ pipe_i = 0
    /\ org_pipeline_count = 0
    /\ pipeline_counts = <<>>
    /\ total_pipelines = 0
    /\ processed_pipelines = 0
    /\ pipelines_with_app_ids = 0
    /\ app_id_counts = [a \in AppIds |-> 0]
    /\ IdleCompare
    /\ IdleWalk
    /\ IdlePipes
    /\ IdleExtract

walk_state == <<organizations, org_i, projects, proj_i, pipelines, pipe_i>>
counters == <<org_pipeline_count, pipeline_counts, total_pipelines,
              processed_pipelines, pipelines_with_app_ids, app_id_counts>>
not_main_vars == <<compare_vars, walk_vars, pipe_vars, extract_vars>>

\* sys.exit(code), or the end of the script
Exits(code, error) ==
    /\ m_pc' = "exited"
    /\ exit_code' = code
    /\ m_error' = error

\* the two org-walking scripts: `if not API_TOKEN`, the test of ACCOUNT_ID
ValidateConfiguration ==
    /\ m_pc = "start"
    /\ m_script \in Scripts
    /\ IF config_missing(m_script, env)
       THEN Exits(1, "configuration")
       ELSE /\ m_pc' = "fetch_organizations"
            /\ UNCHANGED <<exit_code, m_error>>
    /\ UNCHANGED <<m_script, env, calls, walk_state, counters, not_main_vars>>

\* compareDefaultvsCustomerConfigHarness.py: get_harness_config raises the
\* ValueError before its request when a variable is unset; otherwise both
\* configs are fetched and main returns, or compare_configs raises
CompareScript ==
    /\ m_pc = "start"
    /\ m_script = "compareDefaultvsCustomerConfigHarness"
    /\ IF ~env.acct \/ ~env.token
       THEN Exits(1, "configuration") /\ UNCHANGED calls
       ELSE /\ calls' = [calls EXCEPT !.config = @ + 2]
            /\ \/ Exits(0, "none")
               \/ Exits(1, "AttributeError")
    /\ UNCHANGED <<m_script, env, walk_state, counters, not_main_vars>>

\* getHarnessSupportImagesCustomerConfig.py: requests.get with whatever
\* os.getenv returned; every exception of the request is caught
CustomerConfigScript ==
    /\ m_pc = "start"
    /\ m_script = "getHarnessSupportImagesCustomerConfig"
    /\ calls' = [calls EXCEPT !.config = @ + 1]
    /\ Exits(0, "none")
    /\ UNCHANGED <<m_script, env, walk_state, counters, not_main_vars>>

\* organizations = client.get_organizations() ; if not organizations: exit
FetchOrganizations ==
    /\ m_pc = "fetch_organizations"
    /\ \E orgs \in OrgLists :
         /\ organizations' = orgs
         /\ IF no_organizations(orgs)
            THEN Exits(1, "no organizations") /\ UNCHANGED org_i
            ELSE /\ m_pc' = "org_loop"
                 /\ org_i' = 1
                 /\ UNCHANGED <<exit_code, m_error>>
    /\ calls' = [calls EXCEPT !.org = @ + 1]
    /\ UNCHANGED <<m_script, env, projects, proj_i, pipelines, pipe_i,
                   counters, not_main_vars>>

\* for org in organizations: projects = client.get_projects_in_org(org_id)
NextOrg ==
    /\ m_pc = "org_loop"
    /\ org_i <= Len(organizations)
    /\ \E projs \in ProjectLists : projects' = projs
    /\ calls' = [calls EXCEPT !.project = @ + 1]
    /\ proj_i' = 1
    /\ org_pipeline_count' = 0
    /\ m_pc' = "project_loop"
    /\ UNCHANGED <<m_script, env, exit_code, m_error, organizations, org_i,
                   pipelines, pipe_i, pipeline_counts, total_pipelines,
                   processed_pipelines, pipelines_with_app_ids, app_id_counts,
                   not_main_vars>>

\* if project_id == 'unknown': continue
SkipProject ==
    /\ m_pc = "project_loop"
    /\ proj_i <= Len(projects)
    /\ identifier(projects[proj_i], K_project) = unknown
    /\ proj_i' = proj_i + 1
    /\ UNCHANGED <<m_pc, m_script, env, calls, exit_code, m_error,
                   organizations, org_i, projects, pipelines, pipe_i,
                   counters, not_main_vars>>

\* pipelines = client.get_pipelines_in_project(org_id, project_id), counted
\* into the organization (pipelinesByOrg.py) or into the total and then
\* walked (pipelineAppIDs.py)
NextProject ==
    /\ m_pc = "project_loop"
    /\ proj_i <= Len(projects)
    /\ identifier(projects[proj_i], K_project) # unknown
    /\ calls' = [calls EXCEPT !.pipeline = @ + 1]
    /\ \E found \in PipelineLists :
         IF m_script = "pipelinesByOrg"
         THEN /\ org_pipeline_count' = org_pipeline_count + Len(found)
              /\ proj_i' = proj_i + 1
              /\ UNCHANGED <<m_pc, pipelines, pipe_i, total_pipelines>>
         ELSE /\ pipelines' = found
              /\ total_pipelines' = count_found(total_pipelines, found)
              /\ pipe_i' = 1
              /\ m_pc' = "pipeline_loop"
              /\ UNCHANGED <<proj_i, org_pipeline_count>>
    /\ UNCHANGED <<m_script, env, exit_code, m_error, organizations, org_i,
                   projects, pipeline_counts, processed_pipelines,
                   pipelines_with_app_ids, app_id_counts, not_main_vars>>

\* behind the project loop: pipeline_counts[org_id] = org_pipeline_count ;
\* total_pipelines += org_pipeline_count (pipelinesByOrg.py); the next org
EndProjects ==
    /\ m_pc = "project_loop"
    /\ proj_i > Len(projects)
    /\ IF m_script = "pipelinesByOrg"
       THEN /\ pipeline_counts' =
                  set_item(pipeline_counts,
                           identifier(organizations[org_i], K_organization),
                           org_pipeline_count)
            /\ total_pipelines' = total_pipelines + org_pipeline_count
       ELSE UNCHANGED <<pipeline_counts, total_pipelines>>
    /\ org_i' = org_i + 1
    /\ m_pc' = "org_loop"
    /\ UNCHANGED <<m_script, env, calls, exit_code, m_error, organizations,
                   projects, proj_i, pipelines, pipe_i, org_pipeline_count,
                   processed_pipelines, pipelines_with_app_ids, app_id_counts,
                   not_main_vars>>

\* if pipeline_id == 'unknown': continue
SkipPipeline ==
    /\ m_pc = "pipeline_loop"
    /\ pipe_i <= Len(pipelines)
    /\ pipeline_identifier(pipelines[pipe_i]) = unknown
    /\ pipe_i' = pipe_i + 1
    /\ UNCHANGED <<m_pc, m_script, env, calls, exit_code, m_error,
                   organizations, org_i, projects, proj_i, pipelines,
                   counters, not_main_vars>>

\* yaml_content = client.get_pipeline_yaml(...) ; processed_pipelines += 1 ;
\* if yaml_content: ... else "Failed to get YAML"
FetchYaml ==
    /\ m_pc = "pipeline_loop"
    /\ pipe_i <= Len(pipelines)
    /\ pipeline_identifier(pipelines[pipe_i]) # unknown
    /\ calls' = [calls EXCEPT !.yaml = @ + 1]
    /\ processed_pipelines' = processed_pipelines + 1
    /\ \E got \in BOOLEAN :
         IF got THEN m_pc' = "extract" /\ UNCHANGED pipe_i
         ELSE pipe_i' = pipe_i + 1 /\ UNCHANGED m_pc
    /\ UNCHANGED <<m_script, env, exit_code, m_error, organizations, org_i,
                   projects, proj_i, pipelines, org_pipeline_count,
                   pipeline_counts, total_pipelines, pipelines_with_app_ids,
                   app_id_counts, not_main_vars>>

\* app_ids = extract_app_ids_from_yaml(yaml_content) ; if app_ids: count
CountAppIds ==
    /\ m_pc = "extract"
    /\ \E ids \in SUBSET AppIds :
         IF ids # {}
         THEN /\ pipelines_with_app_ids' = pipelines_with_app_ids + 1
              /\ app_id_counts' = count_app_ids(app_id_counts, ids)
         ELSE UNCHANGED <<pipelines_with_app_ids, app_id_counts>>
    /\ pipe_i' = pipe_i + 1
    /\ m_pc' = "pipeline_loop"
    /\ UNCHANGED <<m_script, env, calls, exit_code, m_error, organizations,
                   org_i, projects, proj_i, pipelines, org_pipeline_count,
                   pipeline_counts, total_pipelines, processed_pipelines,
                   not_main_vars>>

\* extract_app_ids_from_yaml raises: nothing in main catches it
ExtractRaises ==
    /\ m_pc = "extract"
    /\ Exits(1, "AttributeError")
    /\ UNCHANGED <<m_script, env, calls, walk_state, counters, not_main_vars>>

\* behind the pipeline loop: the next project
EndPipelines ==
    /\ m_pc = "pipeline_loop"
    /\ pipe_i > Len(pipelines)
    /\ proj_i' = proj_i + 1
    /\ m_pc' = "project_loop"
    /\ UNCHANGED <<m_script, env, calls, exit_code, m_error, organizations,
                   org_i, projects, pipelines, pipe_i, counters,
                   not_main_vars>>

\* behind the organization loop: the summary is printed and main returns
Summary ==
    /\ m_pc = "org_loop"
    /\ org_i > Len(organizations)
    /\ Exits(0, "none")
    /\ UNCHANGED <<m_script, env, calls, walk_state, counters, not_main_vars>>

NextMain ==
    \/ ValidateConfiguration
    \/ CompareScript
    \/ CustomerConfigScript
    \/ FetchOrganizations
    \/ NextOrg
    \/ SkipProject
    \/ NextProject
    \/ EndProjects
    \/ SkipPipeline
    \/ FetchYaml
    \/ CountAppIds
    \/ ExtractRaises
    \/ EndPipelines
    \/ Summary

SpecMain == InitMain /\ [][NextMain]_vars

----------------------------------------------------------------------------
(* extract_app_ids_from_yaml of pipelineAppIDs.py.  The YAML texts are     *)
(* block mappings of at most two levels, indented by two spaces, with      *)
(* plain or double-quoted scalars; yaml.safe_load and yaml.dump            *)
(* (PyYAML >= 5.1, block style, sorted keys) are computed on the           *)
(* characters of this fragment.  A member of a parsed mapping is           *)
(* [k |-> key value, v |-> value]: a YAML key is a str or an int.          *)

NL == "\n"
DQ == "\""
SQ == "'"

K_tags == <<"t", "a", "g", "s">>

IsSpace(c) == c \in {" ", NL, "\t"}
IsQuote(c) == c \in {DQ, SQ}
Digits == {"0", "1", "2", "3", "4", "5", "6", "7", "8", "9"}

\* str.lower() and re.IGNORECASE, on the letters the texts use
Lower(c) == IF c = "I" THEN "i" ELSE c
lower(cs) == [i \in 1..Len(cs) |-> Lower(cs[i])]

\* sub in cs
contains(cs, sub) ==
    \E i \in 1..(Len(cs) - Len(sub) + 1) : SubSeq(cs, i, i + Len(sub) - 1) = sub

\* the five patterns: name ':' \s* ["']? ([^"'\s\n]+) ["']?
patterns ==
    << <<"a", "p", "p", "i", "d">>,
       <<"a", "p", "p", "_", "i", "d">>,
       <<"a", "p", "p", "I", "d">>,
       <<"a", "p", "p", "l", "i", "c", "a", "t", "i", "o", "n", "_", "i", "d">>,
       <<"a", "p", "p", "l", "i", "c", "a", "t", "i", "o", "n", "I", "d">> >>

\* the name and its colon stand at position i, ignoring case
NameAt(text, i, name) ==
    /\ i + Len(name) <= Len(text)
    /\ \A j \in 1..Len(name) : Lower(text[i + j - 1]) = Lower(name[j])
    /\ text[i + Len(name)] = ":"

\* \s* : the first position from i that holds no white space
RECURSIVE SkipSpace(_, _)
SkipSpace(text, i) ==
    IF i <= Len(text) /\ IsSpace(text[i]) THEN SkipSpace(text, i + 1) ELSE i

\* [^"'\s\n]+ : the position behind the longest run of token characters
RECURSIVE TokenEnd(_, _)
TokenEnd(text, i) ==
    IF i <= Len(text) /\ ~IsSpace(text[i]) /\ ~IsQuote(text[i])
    THEN TokenEnd(text, i + 1) ELSE i

\* one attempt of the regex engine at position i.  The three greedy
\* parts leave no second way to match: after the longest white space
\* comes a quote, which must be taken, or a token character.
match_at(text, i, name) ==
    LET p == SkipSpace(text, i + Len(name) + 1)
        q == IF p <= Len(text) /\ IsQuote(text[p]) THEN p + 1 ELSE p
        e == TokenEnd(text, q)
    IN [ok |-> NameAt(text, i, name) /\ e > q,
        group |-> SubSeq(text, q, e - 1),
        end |-> IF e <= Len(text) /\ IsQuote(text[e]) THEN e + 1 ELSE e]

\* re.findall(pattern, text, re.IGNORECASE): the groups of the
\* non-overlapping matches from left to right, as a set
RECURSIVE findall(_, _, _)
findall(name, text, i) ==
    IF i > Len(text) THEN {}
    ELSE LET m == match_at(text, i, name)
         IN IF m.ok THEN {m.group} \cup findall(name, text, m.end)
            ELSE findall(name, text, i + 1)

\* for pattern in patterns: app_ids.update(re.findall(...))
search(text) == UNION { findall(patterns[k], text, 1) : k \in 1..Len(patterns) }

\* text.split('\n')
RECURSIVE split_lines(_)
split_lines(text) ==
    IF \A i \in 1..Len(text) : text[i] # NL THEN <<text>>
    ELSE LET i == CHOOSE j \in 1..Len(text) :
                     text[j] = NL /\ \A h \in 1..(j - 1) : text[h] # NL
         IN <<SubSeq(text, 1, i - 1)>> \o split_lines(SubSeq(text, i + 1, Len(text)))

RECURSIVE int_of(_)
int_of(cs) ==
    IF cs = <<>> THEN 0
    ELSE 10 * int_of(SubSeq(cs, 1, Len(cs) - 1)) + (Ord(cs[Len(cs)]) - 2)

\* the implicit resolver on the scalars of the fragment: a double-quoted
\* scalar is a str, plain digits (no leading zero) an int, other text a str
resolve(cs) ==
    IF Len(cs) >= 2 /\ cs[1] = DQ /\ cs[Len(cs)] = DQ
    THEN Str(SubSeq(cs, 2, Len(cs) - 1))
    ELSE IF cs # <<>> /\ \A i \in 1..Len(cs) : cs[i] \in Digits THEN IntV(int_of(cs))
    ELSE Str(cs)

\* one line `indent key: scalar` or `indent key:`
scan_line(line) ==
    LET first == SkipSpace(line, 1)
        colon == CHOOSE j \in first..Len(line) :
                     line[j] = ":" /\ \A h \in first..(j - 1) : line[h] # ":"
        rest == SubSeq(line, SkipSpace(line, colon + 1), Len(line))
    IN [indent |-> first - 1,
        key |-> resolve(SubSeq(line, first, colon - 1)),
        valued |-> rest # <<>>,
        value |-> IF rest = <<>> THEN Null ELSE resolve(rest)]

\* the lines from i on that are nested below the key of line i - 1
RECURSIVE block_end(_, _)
block_end(lines, i) ==
    IF i <= Len(lines) /\ lines[i].indent > 0 THEN block_end(lines, i + 1) ELSE i

Loaded(ok, data) == [ok |-> ok, data |-> data]

\* the block mapping that starts at line i.  A nested line below a key
\* that has its scalar on the line is a yaml.YAMLError.
RECURSIVE load_block(_, _, _)
load_block(lines, i, members) ==
    IF i > Len(lines) THEN Loaded(TRUE, dict(members))
    ELSE IF lines[i].indent > 0 THEN Loaded(FALSE, Null)
    ELSE IF lines[i].valued
         THEN load_block(lines, i + 1, Append(members, KV(lines[i].key, lines[i].value)))
    ELSE LET j == block_end(lines, i + 1)
             nested == [h \in 1..(j - i - 1) |->
                           KV(lines[i + h].key, lines[i + h].value)]
         IN load_block(lines, j,
                Append(members,
                       KV(lines[i].key, IF j = i + 1 THEN Null ELSE dict(nested))))

\* yaml.safe_load(text): None for the empty document
safe_load(text) ==
    IF text = <<>> THEN Loaded(TRUE, Null)
    ELSE LET lines == split_lines(text)
         IN load_block([i \in 1..Len(lines) |-> scan_line(lines[i])], 1, <<>>)

\* sorted(mapping.items()) in the representer; a TypeError (keys of both
\* types) leaves the order as it is
RECURSIVE sort_members(_)
sort_members(members) ==
    IF members = <<>> THEN <<>>
    ELSE LET m == CHOOSE i \in 1..Len(members) :
                     \A j \in 1..Len(members) :
                        \/ i = j
                        \/ IF members[i].k.t = "int"
                           THEN members[i].k.n < members[j].k.n
                           ELSE StrLess(members[i].k.s, members[j].k.s)
         IN <<members[m]>>
              \o sort_members([h \in 1..(Len(members) - 1) |->
                                  IF h < m THEN members[h] ELSE members[h + 1]])

sort_keys(members) ==
    IF \E i, j \in 1..Len(members) : members[i].k.t # members[j].k.t
    THEN members ELSE sort_members(members)

\* a scalar in block style: null, the digits of an int, a str plain, or
\* single-quoted where the plain text would resolve to an int
represent(v) ==
    CASE v.t = "null" -> <<"n", "u", "l", "l">>
      [] v.t = "int" -> format_index(v.n)
      [] OTHER -> IF resolve(v.s).t = "str" /\ v.s # <<>> THEN v.s
                  ELSE <<SQ>> \o v.s \o <<SQ>>

RECURSIVE dump_block(_, _, _)
dump_block(members, i, indent) ==
    IF i > Len(members) THEN <<>>
    ELSE LET m == members[i]
         IN indent \o represent(m.k) \o <<":">>
              \o (IF m.v.t = "dict"
                  THEN <<NL>> \o dump_block(sort_keys(m.v.items), 1, indent \o <<" ", " ">>)
                  ELSE <<" ">> \o represent(m.v) \o <<NL>>)
              \o dump_block(members, i + 1, indent)

\* yaml.dump(yaml_data) of a non-empty mapping
yaml_dump(data) == dump_block(sort_keys(data.items), 1, <<>>)

\* str(value) of a scalar
str(v) ==
    CASE v.t = "null" -> <<"N", "o", "n", "e">>
      [] v.t = "int" -> format_index(v.n)
      [] OTHER -> v.s

\* 'appid' in key.lower() or 'app_id' in key.lower()
names_app_id(key) ==
    \/ contains(lower(key), <<"a", "p", "p", "i", "d">>)
    \/ contains(lower(key), <<"a", "p", "p", "_", "i", "d">>)

Looped(failed, ids) == [raised |-> failed, ids |-> ids]

\* for key, value in tags.items(): key.lower() raises AttributeError on a
\* key that is not a str
RECURSIVE tags_loop(_, _, _)
tags_loop(members, i, ids) ==
    IF i > Len(members) THEN Looped(FALSE, ids)
    ELSE IF members[i].k.t # "str" THEN Looped(TRUE, ids)
    ELSE tags_loop(members, i + 1,
             IF names_app_id(members[i].k.s)
             THEN ids \cup {str(members[i].v)} ELSE ids)

\* the try block behind yaml.safe_load
scan_parsed(text, yaml_data) ==
    LET yaml_str == IF PyTruthy(yaml_data) THEN yaml_dump(yaml_data) ELSE text
        ids == search(yaml_str)
        tags == IF yaml_data.t = "dict"
                THEN Get(yaml_data, Str(K_tags), Dict(<<>>)) ELSE Null
    IN IF tags.t = "dict" THEN tags_loop(tags.items, 1, ids)
       ELSE Looped(FALSE, ids)

\* the texts a pipeline YAML may be: up to MaxLines lines, the first one
\* not indented
InputKeys == {K_tags, <<"a", "p", "p", "I", "d">>, K_name, <<"1">>}
InputScalars ==
    {<<>>, <<"x">>, <<DQ, "s", "v", "c", "-", "4", "2", DQ>>, <<"4", "2">>}

line_text(indent, key, scalar) ==
    indent \o key \o <<":">> \o (IF scalar = <<>> THEN <<>> ELSE <<" ">> \o scalar)

InputLines(indents) ==
    { line_text(indent, key, scalar) :
        indent \in indents, key \in InputKeys, scalar \in InputScalars }

RECURSIVE join_lines(_)
join_lines(lines) ==
    IF Len(lines) = 1 THEN lines[1]
    ELSE lines[1] \o <<NL>> \o join_lines(Tail(lines))

YamlTexts ==
    {<<>>} \cup
    { join_lines(lines) :
        lines \in UNION { { <<first>> \o rest :
                              first \in InputLines({<<>>}),
                              rest \in [1..n -> InputLines({<<>>, <<" ", " ">>})] }
                          : n \in 0..(MaxLines - 1) } }

not_extract_vars == <<compare_vars, walk_vars, pipe_vars, main_vars>>

InitExtract ==
    /\ e_pc = "start"
    /\ yaml_content \in YamlTexts
    /\ app_ids = {}
    /\ e_raised = "none"
    /\ IdleCompare
    /\ IdleWalk
    /\ IdlePipes
    /\ IdleMain

\* yaml.safe_load succeeds and the try block runs to its end
ExtractParsed ==
    /\ e_pc = "start"
    /\ safe_load(yaml_content).ok
    /\ LET r == scan_parsed(yaml_content, safe_load(yaml_content).data)
       IN /\ ~r.raised
          /\ app_ids' = r.ids
    /\ e_pc' = "returned"
    /\ UNCHANGED <<yaml_content, e_raised, not_extract_vars>>

\* except yaml.YAMLError: the patterns on the raw content
ExtractFallback ==
    /\ e_pc = "start"
    /\ ~safe_load(yaml_content).ok
    /\ app_ids' = search(yaml_content)
    /\ e_pc' = "returned"
    /\ UNCHANGED <<yaml_content, e_raised, not_extract_vars>>

\* the tags loop raises: no handler for AttributeError, nothing is returned
ExtractTagsRaise ==
    /\ e_pc = "start"
    /\ safe_load(yaml_content).ok
    /\ LET r == scan_parsed(yaml_content, safe_load(yaml_content).data)
       IN /\ r.raised
          /\ app_ids' = r.ids
    /\ e_pc' = "raised"
    /\ e_raised' = "AttributeError"
    /\ UNCHANGED <<yaml_content, not_extract_vars>>

NextExtract ==
    \/ ExtractParsed
    \/ ExtractFallback
    \/ ExtractTagsRaise

SpecExtract == InitExtract /\ [][NextExtract]_vars

----------------------------------------------------------------------------
(* Properties of compare_configs and flatten_dict *)

Compared == pc = "done" /\ report = "compared"

KeysOf(list) == {list[i].key : i \in 1..Len(list)}

Ascending(list) ==
    \A i, j \in 1..Len(list) : i < j => StrLess(list[i].key, list[j].key)

\* C1: after compare_configs has classified, every key of the union of the
\* two flattened configs is in exactly one of the four lists, the one the
\* presence-then-equality rule names; the lists are pairwise disjoint,
\* their sizes sum to the size of the union and each is in ascending key
\* order.
C1_Partition ==
    Compared =>
        LET U == KeySet(flat_default) \cup KeySet(flat_customer)
            OD == KeysOf(only_in_default)
            OC == KeysOf(only_in_customer)
            DV == KeysOf(different_values)
            SV == KeysOf(same_values)
            Rule(key) ==
                IF ~HasKey(flat_customer, key) THEN OD
                ELSE IF ~HasKey(flat_default, key) THEN OC
                ELSE IF PyEq(Get(flat_default, key, Null),
                             Get(flat_customer, key, Null)) THEN SV
                ELSE DV
        IN /\ OD \cup OC \cup DV \cup SV = U
           /\ \A key \in U :
                /\ key \in Rule(key)
                /\ Cardinality({L \in {"od", "oc", "dv", "sv"} :
                        \/ L = "od" /\ key \in OD
                        \/ L = "oc" /\ key \in OC
                        \/ L = "dv" /\ key \in DV
                        \/ L = "sv" /\ key \in SV}) = 1
           /\ OD \cap OC = {} /\ OD \cap DV = {} /\ OD \cap SV = {}
           /\ OC \cap DV = {} /\ OC \cap SV = {} /\ DV \cap SV = {}
           /\ Len(only_in_default) + Len(only_in_customer)
                + Len(different_values) + Len(same_values) = Cardinality(U)
           /\ Ascending(only_in_default) /\ Ascending(only_in_customer)
           /\ Ascending(different_values) /\ Ascending(same_values)

\* a comparison that filled three of the lists, one with two keys
C1_Witness ==
    /\ Compared
    /\ Len(only_in_default) >= 1
    /\ Len(only_in_customer) >= 1
    /\ Len(different_values) + Len(same_values) >= 2

ToSet(list) == {list[i] : i \in 1..Len(list)}

\* C2: the diff with the two flattened configs swapped has the only-A and
\* only-B partitions exchanged, the same unchanged keys, and the same
\* changed keys with old and new value exchanged.
C2_Symmetric ==
    Compared =>
        LET r == classify(flat_customer, flat_default)
        IN /\ ToSet(r.only_in_default) = ToSet(only_in_customer)
           /\ ToSet(r.only_in_customer) = ToSet(only_in_default)
           /\ KeysOf(r.same_values) = KeysOf(same_values)
           /\ ToSet(r.different_values) =
                { [key |-> e.key, default_val |-> e.customer_val,
                   customer_val |-> e.default_val] : e \in ToSet(different_values) }

\* a comparison with a key on either side only and a changed key
C2_Witness ==
    /\ Compared
    /\ only_in_default # <<>>
    /\ only_in_customer # <<>>
    /\ different_values # <<>>

\* C3: a key present on both sides is unchanged only when the two values
\* have the same scalar type and the same value; values of different
\* scalar types are always classified as changed.
C3_NoCoercion ==
    Compared =>
        \A key \in KeySet(flat_default) \cap KeySet(flat_customer) :
            LET dv == Get(flat_default, key, Null)
                cv == Get(flat_customer, key, Null)
            IN (IsScalar(dv) /\ IsScalar(cv)) =>
                 /\ dv.t # cv.t => key \in KeysOf(different_values)
                 /\ key \in KeysOf(same_values) => dv = cv

RemoveAt(seq, i) == [j \in 1..(Len(seq) - 1) |-> IF j < i THEN seq[j] ELSE seq[j + 1]]

\* y is x with exactly one scalar leaf replaced by another scalar
RECURSIVE OneScalarChanged(_, _)
OneScalarChanged(x, y) ==
    IF IsScalar(x) \/ IsScalar(y) THEN IsScalar(x) /\ IsScalar(y) /\ x # y
    ELSE /\ x.t = y.t
         /\ Len(x.items) = Len(y.items)
         /\ \A i \in 1..Len(x.items) : x.items[i].k = y.items[i].k
         /\ \E i \in 1..Len(x.items) :
              /\ OneScalarChanged(x.items[i].v, y.items[i].v)
              /\ \A j \in 1..Len(x.items) : j # i => x.items[j] = y.items[j]

\* c is d with one scalar changed and one top-level key (scalar-valued) added
OneChangedOneAdded(d, c) ==
    /\ d.t = "dict" /\ c.t = "dict"
    /\ \E i \in 1..Len(c.items) :
         /\ ~HasKey(d, c.items[i].k)
         /\ IsScalar(c.items[i].v)
         /\ OneScalarChanged(d, Dict(RemoveAt(c.items, i)))

\* C4: when the customer data is the default data with one scalar changed
\* and one key added, the summary counts are one changed entry, one
\* customer-only entry and no default-only entry.
C4_EndToEnd ==
    (Compared /\ OneChangedOneAdded(data_of(default_config),
                                    data_of(customer_config)))
        => /\ Len(different_values) = 1
           /\ Len(only_in_customer) = 1
           /\ Len(only_in_default) = 0

\* the (path, leaf) pairs the naming rule gives for the members of x under
\* prefix p: p.k for a member, p[i] for an element
RECURSIVE PathLeaves(_, _)
PathLeaves(x, p) ==
    UNION { LET k == x.items[j].k
                v == x.items[j].v
                np == IF p = <<>> THEN k ELSE p \o <<".">> \o k
                at(i) == np \o <<"[">> \o format_index(i) \o <<"]">>
            IN IF v.t = "dict" THEN PathLeaves(v, np)
               ELSE IF v.t = "list"
               THEN UNION { IF v.items[i].v.t = "dict"
                            THEN PathLeaves(v.items[i].v, at(i - 1))
                            ELSE {KV(at(i - 1), v.items[i].v)}
                            : i \in 1..Len(v.items) }
               ELSE {KV(np, v)}
            : j \in 1..Len(x.items) }

NamedByPath(flat, data) ==
    /\ ToSet(flat.items) \subseteq PathLeaves(data, <<>>)
    /\ KeySet(flat) = {e.k : e \in PathLeaves(data, <<>>)}

Example1 == Dict(<<KV(K_a, Dict(<<KV(K_b, IntV(1))>>))>>)
Example2 == Dict(<<KV(K_a, List(<<Dict(<<KV(K_b, IntV(1))>>), IntV(2)>>))>>)

\* C5: flatten_dict names every entry by its structural path (p.k for a
\* mapping member, k at the root, p[i] for a sequence element, a mapping
\* element flattened under p[i]); {"a":{"b":1}} flattens to {"a.b":1} and
\* {"a":[{"b":1},2]} to {"a[0].b":1, "a[1]":2}.
C5_PathNames ==
    Compared =>
        /\ NamedByPath(flat_default, data_of(default_config))
        /\ NamedByPath(flat_customer, data_of(customer_config))
        /\ data_of(default_config) = Example1 =>
             flat_default = Dict(<<KV(<<"a", ".", "b">>, IntV(1))>>)
        /\ data_of(customer_config) = Example2 =>
             flat_customer = Dict(<<KV(<<"a", "[", "0", "]", ".", "b">>, IntV(1)),
                                    KV(<<"a", "[", "1", "]">>, IntV(2))>>)

\* both examples flattened in one comparison
C5_Witness ==
    /\ Compared
    /\ data_of(default_config) = Example1
    /\ data_of(customer_config) = Example2
    /\ Len(flat_default.items) = 1
    /\ Len(flat_customer.items) = 2

\* C6: every value of a flattened config is a scalar.
C6_ScalarValues ==
    Compared =>
        /\ \A i \in 1..Len(flat_default.items) : IsScalar(flat_default.items[i].v)
        /\ \A i \in 1..Len(flat_customer.items) : IsScalar(flat_customer.items[i].v)

\* C7: flatten_dict returns for a mapping, a sequence or a scalar and never
\* raises.
C7_FlattenTotal == raised = "none"

EnteredCompare == pc \in {"done", "raised"} /\ report # "fetch_failed"

NothingClassified ==
    /\ flat_default = Dict(<<>>) /\ flat_customer = Dict(<<>>)
    /\ only_in_default = <<>> /\ only_in_customer = <<>>
    /\ different_values = <<>> /\ same_values = <<>>
    /\ summary = <<>>

\* absent, null, or a mapping, sequence or string without elements
AbsentNullOrEmpty(config) ==
    \/ ~HasKey(config, K_data)
    \/ data_of(config).t = "null"
    \/ data_of(config).t \in {"dict", "list", "str"}
         /\ Len(data_of(config).items) = 0 /\ Len(data_of(config).s) = 0

\* C8 as stated: the "using DEFAULT" result is reported, and nothing is
\* flattened or classified, exactly when the customer 'data' is absent,
\* null or empty.
C8_ShortCircuitWhenEmpty ==
    EnteredCompare =>
        /\ AbsentNullOrEmpty(customer_config) =>
             (report = "using_default" /\ NothingClassified)
        /\ ~AbsentNullOrEmpty(customer_config) => report # "using_default"

\* absent, or falsy: null, false, zero, or without elements
AbsentOrFalsy(config) ==
    \/ AbsentNullOrEmpty(config)
    \/ data_of(config).t \in {"bool", "int"} /\ data_of(config).n = 0

\* C8 amended: the "using DEFAULT" result is reported, and nothing is
\* flattened or classified, exactly when the customer 'data' is absent or
\* falsy (null, false, zero, or empty).
C8_ShortCircuitWhenFalsy ==
    EnteredCompare =>
        /\ AbsentOrFalsy(customer_config) =>
             (report = "using_default" /\ NothingClassified)
        /\ ~AbsentOrFalsy(customer_config) => report # "using_default"

\* the short-circuit taken on a 'data' of zero
C8_Witness ==
    /\ pc = "done" /\ report = "using_default"
    /\ HasKey(customer_config, K_data)
    /\ data_of(customer_config) = IntV(0)

----------------------------------------------------------------------------
(* Properties of the page walkers *)

\* the content list of a response, <<>> when it carries none
ContentOf(r) ==
    IF /\ r.t = "dict" /\ HasKey(r, K_data)
       /\ Get(r, K_data, Null).t = "dict"
       /\ HasKey(Get(r, K_data, Null), K_content)
       /\ Get(Get(r, K_data, Null), K_content, Null).t = "list"
    THEN LET c == Get(Get(r, K_data, Null), K_content, Null).items
         IN [i \in 1..Len(c) |-> c[i].v]
    ELSE <<>>

\* absent, no or empty content list, or 'last' true or missing
StopsAt(r) ==
    \/ r = Null
    \/ ContentOf(r) = <<>>
    \/ ~HasKey(Get(r, K_data, Null), K_last)
    \/ Get(Get(r, K_data, Null), K_last, Null) = Bool(TRUE)

RECURSIVE ConcatContent(_)
ConcatContent(rs) ==
    IF rs = <<>> THEN <<>>
    ELSE ContentOf(Head(rs)) \o ConcatContent(Tail(rs))

CeilDiv(a, b) == (a + b - 1) \div b

ReportsLast(r) ==
    /\ r.t = "dict"
    /\ Get(r, K_data, Null).t = "dict"
    /\ Get(Get(r, K_data, Null), K_last, Null) = Bool(TRUE)

\* C10: against a well-behaved server the walker returns, after at most
\* ceil(serverTotal/pageSize)+1 requests; after a first page that reports
\* last=true it has made exactly one request.
C10_Terminates ==
    /\ [](server.kind = "well_behaved" =>
            Len(requests) <= CeilDiv(server.total, pageSize) + 1)
    /\ []((Len(responses) >= 1 /\ ReportsLast(responses[1])) =>
            (w_pc = "returned" /\ Len(requests) = 1))
    /\ (server.kind = "well_behaved" ~> w_pc = "returned")

\* a walk that needed every request of the bound: full pages and an empty
\* final page
C10_Witness ==
    /\ w_pc = "returned"
    /\ server.kind = "well_behaved"
    /\ server.total >= 2 * pageSize
    /\ Len(requests) = CeilDiv(server.total, pageSize) + 1
    /\ Len(result_list) = server.total

----------------------------------------------------------------------------
(* Properties of get_pipelines_in_project and _make_request *)

\* a response a pipeline list is taken from: 'data' (or the body itself
\* when it has no 'data') is a list, or a mapping with a non-empty
\* 'content' or 'pipelines', or in pipelinesByOrg.py a 'totalElements'
YieldsList(scr, r) ==
    /\ r.t = "dict" /\ Len(r.items) > 0
    /\ LET data == IF HasKey(r, K_data) THEN Get(r, K_data, Null) ELSE r
       IN \/ data.t = "list"
          \/ /\ data.t = "dict"
             /\ \/ HasKey(data, K_content) /\ Len(Get(data, K_content, Null).items) > 0
                \/ HasKey(data, K_pipelines) /\ Len(Get(data, K_pipelines, Null).items) > 0
                \/ scr = "pipelinesByOrg" /\ HasKey(data, K_totalElements)

LastResponse == p_responses[Len(p_responses)]

\* C11 as stated: once a strategy has returned a response that is not
\* absent, no later strategy is requested.
C11_StopsAtFirstResponse ==
    \A i \in 1..Len(p_responses) : i < Len(p_responses) => p_responses[i] = Null

\* C11 amended: the strategies are requested in listed order, and the
\* first response a pipeline list is taken from ends the search; a
\* response of any other shape, absent or not, does not end it.
C11_StopsAtFirstList ==
    /\ p_requests = [i \in 1..Len(p_requests) |-> i]
    /\ Len(p_responses) = Len(p_requests)
    /\ \A i \in 1..Len(p_responses) :
         i < Len(p_responses) => ~YieldsList(p_script, p_responses[i])
    /\ (Len(p_responses) >= 1 /\ YieldsList(p_script, LastResponse))
          => p_pc = "returned"
    /\ (p_pc = "returned" /\ ~YieldsList(p_script, LastResponse))
          => Len(p_requests) = NumApproaches(p_script)

\* a search that went past a response that was not absent and then found
\* a list
C11_Witness ==
    /\ p_pc = "returned"
    /\ Len(p_requests) >= 2
    /\ p_responses[1] # Null
    /\ YieldsList(p_script, LastResponse)
    /\ Len(p_result) >= 1

\* C12: get_pipelines_in_project never raises; when no strategy gave a
\* list it returns the empty list after requesting every strategy once, in
\* listed order.
C12_NeverRaises ==
    /\ p_raised = "none"
    /\ p_pc # "raised"
    /\ (p_pc = "returned"
          /\ \A i \in 1..Len(p_responses) : ~YieldsList(p_script, p_responses[i]))
        => /\ p_result = <<>>
           /\ p_requests = [i \in 1..NumApproaches(p_script) |-> i]

\* every one of three strategies failed, the first on a null 'data'
C12_Witness ==
    /\ p_pc = "returned"
    /\ p_script = "pipelinesByOrg"
    /\ Len(p_requests) = 3
    /\ p_responses[1] = Dict(<<KV(K_data, Null)>>)
    /\ p_responses[2] = Null
    /\ ~YieldsList(p_script, p_responses[3])
    /\ p_result = <<>>

\* C13: for every transport failure and every non-2xx answer _make_request
\* returns None and logs a diagnostic; an answer other than 404 is logged
\* with its status.
C13_LogsEveryFailure ==
    \A i \in 1..Len(p_outcomes) :
        p_outcomes[i].kind # "ok" =>
            /\ p_responses[i] = Null
            /\ p_log[i] # <<>>
            /\ (p_outcomes[i].kind = "http_error" /\ p_outcomes[i].status # 404)
                  => \E j \in 1..Len(p_log[i]) : p_log[i][j] = "Response status"

----------------------------------------------------------------------------
(* Further properties of main, compare_configs and flatten_dict *)

\* C16: with the credentials set, whatever the two config fetches answer
\* (a failure, or a body whose 'data' is a mapping, null, a sequence or a
\* scalar), main returns normally and no exception reaches the top level.
C16_MainReturns ==
    pc # "raised" /\ (pc = "done" => report \in {"fetch_failed", "using_default", "compared"})

\* the scalars at the leaves of a nested value
RECURSIVE LeafCount(_), LeafCountFrom(_, _)
LeafCountFrom(x, j) ==
    IF j > Len(x.items) THEN 0
    ELSE LeafCount(x.items[j].v) + LeafCountFrom(x, j + 1)

LeafCount(x) == IF IsScalar(x) THEN 1 ELSE LeafCountFrom(x, 1)

\* C18: flatten_dict has exactly one entry for every scalar leaf of its
\* input: no two leaves share a synthesized path.
C18_NoLeafLost ==
    Compared =>
        /\ Len(flat_default.items) = LeafCount(data_of(default_config))
        /\ Len(flat_customer.items) = LeafCount(data_of(customer_config))

----------------------------------------------------------------------------
(* Properties of main of the scripts *)

Unset == ~env.token \/ ~env.acct

\* C14: in every script, a run with HARNESS_ACCT_ID or HARNESS_API_TOKEN
\* unset issues no network request and ends with a configuration error.
C14_ConfigErrorBeforeNetwork ==
    (m_pc # "idle" /\ Unset) =>
        /\ calls = NoCalls
        /\ m_pc = "exited" => (exit_code = 1 /\ m_error = "configuration")

Walking == m_script \in Scripts

\* C15: in the two organization-walking scripts an empty organization list
\* makes main exit with 1 before any project, pipeline or YAML request;
\* with a non-empty list, main running to its end exits with 0.
C15_EmptyOrgListExits ==
    Walking =>
        /\ (calls.org >= 1 /\ organizations = <<>>) =>
              /\ m_pc = "exited" /\ exit_code = 1
              /\ calls.project = 0 /\ calls.pipeline = 0 /\ calls.yaml = 0
        /\ (m_pc = "exited" /\ organizations # <<>>) =>
              /\ m_error \in {"none", "AttributeError"}
              /\ m_error = "none" <=> exit_code = 0
              /\ m_error = "none" => org_i = Len(organizations) + 1
        /\ calls.org <= 1

\* the organization fetch came back empty and main has exited with 1
C15_Witness ==
    /\ Walking /\ calls.org = 1 /\ organizations = <<>>
    /\ m_pc = "exited" /\ exit_code = 1

RECURSIVE SumFrom(_, _)
SumFrom(d, i) == IF i > Len(d) THEN 0 ELSE d[i].v + SumFrom(d, i + 1)

\* C19: in pipelinesByOrg.py the TOTAL line equals the sum of the counts of
\* the rows of the summary table, whatever organizations the server lists.
C19_TotalIsSum ==
    (m_script = "pipelinesByOrg" /\ m_pc = "exited" /\ exit_code = 0)
        => total_pipelines = SumFrom(pipeline_counts, 1)

\* C20: in pipelineAppIDs.py, at every point of the run,
\* pipelines_with_app_ids <= processed_pipelines <= total_pipelines and no
\* appID is counted more often than there are pipelines with appIDs, so
\* the coverage and every percentage of the report is at most 100.
C20_CountersOrdered ==
    m_script = "pipelineAppIDs" =>
        /\ pipelines_with_app_ids <= processed_pipelines
        /\ processed_pipelines <= total_pipelines
        /\ \A a \in AppIds :
             /\ app_id_counts[a] <= pipelines_with_app_ids
             /\ total_pipelines > 0 =>
                  (app_id_counts[a] * 100) \div total_pipelines <= 100
        /\ total_pipelines > 0 =>
             (pipelines_with_app_ids * 100) \div total_pipelines <= 100

\* a finished run in which a pipeline was skipped, one had no appID, one
\* had both appIDs and one had only the first
C20_Witness ==
    /\ m_script = "pipelineAppIDs" /\ m_pc = "exited" /\ exit_code = 0
    /\ total_pipelines > processed_pipelines
    /\ processed_pipelines > pipelines_with_app_ids
    /\ pipelines_with_app_ids = 2
    /\ app_id_counts[<<"x">>] = 2
    /\ app_id_counts[<<"y">>] = 1

----------------------------------------------------------------------------
(* Properties of extract_app_ids_from_yaml *)

Example ==
    <<"t", "a", "g", "s", ":", NL, " ", " ", "a", "p", "p", "I", "d", ":", " ",
      DQ, "s", "v", "c", "-", "4", "2", DQ>>

Parsed == safe_load(yaml_content)

\* the text the patterns are run on
Scanned ==
    IF Parsed.ok /\ PyTruthy(Parsed.data) THEN yaml_dump(Parsed.data)
    ELSE yaml_content

\* the values under the keys of a top-level 'tags' mapping whose name
\* contains 'appid' or 'app_id'
TagValues ==
    IF Parsed.ok /\ Parsed.data.t = "dict"
    THEN LET tags == Get(Parsed.data, Str(K_tags), Dict(<<>>))
         IN IF tags.t # "dict" THEN {}
            ELSE { str(tags.items[i].v) :
                     i \in { h \in 1..Len(tags.items) :
                               /\ tags.items[h].k.t = "str"
                               /\ names_app_id(tags.items[h].k.s) } }
    ELSE {}

NoMatchingKey ==
    \A k \in 1..Len(patterns) : ~contains(lower(yaml_content), lower(patterns[k]))

Extracted ==
    /\ app_ids = search(Scanned) \cup TagValues
    /\ yaml_content = Example => app_ids = {<<"s", "v", "c", "-", "4", "2">>}
    /\ NoMatchingKey => app_ids = {}

\* C17: for every YAML text extract_app_ids_from_yaml returns the set that
\* is the union of the pattern matches on the scanned text and the values
\* of the appID-named keys of a top-level 'tags' mapping: empty without a
\* matching key, {"svc-42"} on the example.
C17_ExactUnion ==
    e_pc \in {"returned", "raised"} => (e_pc = "returned" /\ Extracted)

====
